---- MODULE Spec2Model ----
(***************************************************************************)
(* Model of robots/controllers/cartesian_impedance_control.py:             *)
(* CustomCartesianImpedanceControl, a Cartesian impedance policy.          *)
(*                                                                         *)
(* Two threads act on one policy object: the control loop, which runs      *)
(* forward() (one tick) statement by statement, and a caller of            *)
(* update_desired_ee_pose(), which runs its two assignments one after the  *)
(* other.  Python gives no atomicity across statements, so every           *)
(* interleaving of the two is a behaviour.                                 *)
(*                                                                         *)
(* Floats are modelled by small integers plus one non-finite value, NaN,   *)
(* which every arithmetic operation propagates (0 * NaN = NaN, as in       *)
(* IEEE-754 and torch).  Vectors are sequences, matrices sequences of rows.*)
(***************************************************************************)
EXTENDS Integers, Sequences, FiniteSets

\* ------------------------------------------------------------------ bounds
\* Degrees of freedom of the manipulator the injected robot model describes.
DOF == 2

\* ------------------------------------------------------------- float values
\* The non-finite float (a sentinel outside the range of every finite value
\* the model computes).
NaN == -1000

\* Python's None, and the value of a local not yet assigned.
None == <<>>

Add(a, b) == IF a = NaN \/ b = NaN THEN NaN ELSE a + b
Sub(a, b) == IF a = NaN \/ b = NaN THEN NaN ELSE a - b
Mul(a, b) == IF a = NaN \/ b = NaN THEN NaN ELSE a * b
Neg(a) == IF a = NaN THEN NaN ELSE 0 - a

RECURSIVE SumSeq(_)
SumSeq(s) == IF s = <<>> THEN 0 ELSE Add(Head(s), SumSeq(Tail(s)))

Zeros(n) == [i \in 1..n |-> 0]
VecAdd(a, b) == [i \in DOMAIN a |-> Add(a[i], b[i])]
VecSub(a, b) == [i \in DOMAIN a |-> Sub(a[i], b[i])]
Dot(a, b) == SumSeq([i \in DOMAIN a |-> Mul(a[i], b[i])])
\* m @ v for a matrix given as a sequence of rows
MatVec(m, v) == [r \in DOMAIN m |-> Dot(m[r], v)]
\* m.T @ w : one entry per column of m
MatTVec(m, w) == [j \in 1..Len(m[1]) |-> SumSeq([r \in DOMAIN m |-> Mul(m[r][j], w[r])])]

\* ------------------------------------------------ the injected robot model
\* A fixed, deterministic manipulator standing for the robot_model argument.
\* Its three operations raise on a joint vector whose length is not DOF.
RobotAccepts(q) == Len(q) = DOF

forward_kinematics(q) ==
    LET s == SumSeq(q)
    IN  [pos  |-> <<q[1], q[DOF], 0>>,
         quat |-> IF s = NaN THEN <<NaN, NaN, NaN, NaN>>
                  ELSE IF s % 2 = 0 THEN <<0, 0, 0, 1>> ELSE <<0, 0, 1, 0>>]

compute_jacobian(q) ==
    [r \in 1..6 |-> [j \in 1..DOF |->
        IF r = 1 THEN 1
        ELSE IF r = 2 THEN q[j]
        ELSE IF r = 6 THEN 1
        ELSE 0]]

inverse_dynamics(q, qd, qdd, ignore_gravity) ==
    [j \in 1..DOF |->
        Add(Add(qdd[j], Mul(q[j], qd[j])), IF ignore_gravity THEN 0 ELSE 1)]

\* --------------------------------------------------- the Cartesian PD module
\* Quaternions are <<x, y, z, w>>.
invert_quaternion(q) == <<Neg(q[1]), Neg(q[2]), Neg(q[3]), q[4]>>

quaternion_multiply(a, b) ==
    << Add(Sub(Add(Mul(a[4], b[1]), Mul(a[1], b[4])), Mul(a[3], b[2])), Mul(a[2], b[3])),
       Add(Sub(Add(Mul(a[4], b[2]), Mul(a[2], b[4])), Mul(a[1], b[3])), Mul(a[3], b[1])),
       Add(Sub(Add(Mul(a[4], b[3]), Mul(a[3], b[4])), Mul(a[2], b[1])), Mul(a[1], b[2])),
       Sub(Sub(Sub(Mul(a[4], b[4]), Mul(a[1], b[1])), Mul(a[2], b[2])), Mul(a[3], b[3])) >>

\* The rotation error from current to desired: twice the vector part of
\* quat_des * inverse(quat_cur), with the sign that makes q and -q agree.
orientation_error(quat_cur, quat_des) ==
    LET d == quaternion_multiply(quat_des, invert_quaternion(quat_cur))
        sgn == IF d[4] # NaN /\ d[4] < 0 THEN 0 - 1 ELSE 1
    IN  [i \in 1..3 |-> Mul(sgn, Mul(2, d[i]))]

\* wrench = Kp * pose_error + Kd * twist_error, with Kp and Kd the diagonals
\* of the gain matrices.
pose_pd(gKp, gKd, pos_cur, quat_cur, twist_cur, pos_des, quat_des, twist_des) ==
    LET pose_err  == VecSub(pos_des, pos_cur) \o orientation_error(quat_cur, quat_des)
        twist_err == VecSub(twist_des, twist_cur)
    IN  [i \in 1..6 |-> Add(Mul(gKp[i], pose_err[i]), Mul(gKd[i], twist_err[i]))]

\* ------------------------------------------------------------------ inputs
JointVals == {0, 1}
Ones(n) == [i \in 1..n |-> 1]

\* Joint vectors a caller may pass: vectors of DOF joint values, one holding
\* a non-finite value, and one of the wrong length.
WrongShape == {Zeros(DOF - 1)}
NonFinite == {[Zeros(DOF) EXCEPT ![1] = NaN]}
JointPositions == [1..DOF -> JointVals] \cup NonFinite \cup WrongShape
JointVelocities == {Zeros(DOF), Ones(DOF)} \cup WrongShape
StateDicts ==
    {[joint_positions |-> a, joint_velocities |-> b] :
        a \in JointPositions, b \in JointVelocities}

\* Targets a caller may pass to update_desired_ee_pose or to the constructor.
Positions == {<<0, 0, 0>>, <<1, 0, 0>>}
Quaternions == {<<0, 0, 0, 1>>, <<0, 0, 1, 0>>}

\* Constructor arguments.
InitJointPositions == {Zeros(DOF), [Zeros(DOF) EXCEPT ![1] = 1]}
Gains == {[Kp |-> Zeros(6), Kd |-> Zeros(6)],
          [Kp |-> [i \in 1..6 |-> 2], Kd |-> Ones(6)]}
CtorArgs ==
    {[joint_pos_current |-> j, Kp |-> g.Kp, Kd |-> g.Kd, ignore_gravity |-> ig,
      ee_pos_desired |-> p, ee_quat_desired |-> q] :
        j \in InitJointPositions, g \in Gains, ig \in BOOLEAN,
        p \in {None, <<0, 0, 0>>}, q \in {None, <<0, 0, 0, 1>>}}

\* ------------------------------------------------------------------- state
VARIABLES
    \* the policy object
    ee_pos_desired, ee_quat_desired, ee_vel_desired, ee_rvel_desired,
    Kp, Kd, ignore_gravity, robot_model,
    \* the control thread: its position in forward(), the locals of the
    \* running call, what the last call returned or raised, and the
    \* robot-model operations the running or last call invoked, in order
    tpc, fwd, result, rm_calls,
    \* the updating thread: its position in update_desired_ee_pose and the
    \* call's arguments
    upc, upd_args,
    \* history: the constructor's arguments, the last target written in full
    \* (and by whom), and the targets that were current or being written
    \* while the running tick had not yet finished reading its target
    ctor, committed, tick_targets

policy == <<ee_pos_desired, ee_quat_desired, ee_vel_desired, ee_rvel_desired,
            Kp, Kd, ignore_gravity, robot_model>>
control == <<tpc, fwd, result, rm_calls>>
updater == <<upc, upd_args>>
history == <<ctor, committed, tick_targets>>
vars == <<policy, control, updater, history>>

NoLocals ==
    [joint_pos_current |-> None, joint_vel_current |-> None,
     ee_pos_current |-> None, ee_quat_current |-> None,
     jacobian |-> None, ee_twist_current |-> None,
     pos_desired |-> None, quat_desired |-> None,
     wrench_feedback |-> None, torque_feedback |-> None,
     invdyn_args |-> None, torque_feedforward |-> None]

\* What a call of forward() has produced: nothing yet, an exception, or the
\* returned {"joint_torques": t}.
Pending == [status |-> "pending", error |-> "", joint_torques |-> None]
Raised(e) == [status |-> "raised", error |-> e, joint_torques |-> None]
Returned(t) == [status |-> "returned", error |-> "", joint_torques |-> t]

\* ------------------------------------------------------------ construction
\* A constructor that takes both defaults whenever the position is omitted.
Construct_DefaultsTogether(a) ==
    LET ee_current == forward_kinematics(a.joint_pos_current)
    IN  [ee_pos_desired  |-> IF a.ee_pos_desired = None
                             THEN ee_current.pos ELSE a.ee_pos_desired,
         ee_quat_desired |-> IF a.ee_pos_desired = None \/ a.ee_quat_desired = None
                             THEN ee_current.quat ELSE a.ee_quat_desired,
         ee_vel_desired  |-> Zeros(3),
         ee_rvel_desired |-> Zeros(3),
         Kp |-> a.Kp,
         Kd |-> a.Kd,
         ignore_gravity |-> a.ignore_gravity]

\* __init__: the fields of the new object.
Construct(a) ==
    LET ee_current == forward_kinematics(a.joint_pos_current)
    IN  [ee_pos_desired  |-> IF a.ee_pos_desired = None
                             THEN ee_current.pos ELSE a.ee_pos_desired,
         ee_quat_desired |-> IF a.ee_quat_desired = None
                             THEN ee_current.quat ELSE a.ee_quat_desired,
         ee_vel_desired  |-> Zeros(3),
         ee_rvel_desired |-> Zeros(3),
         Kp |-> a.Kp,
         Kd |-> a.Kd,
         ignore_gravity |-> a.ignore_gravity]

Init ==
    \E a \in CtorArgs :
        LET o == Construct(a)
        IN  /\ ctor = a
            /\ ee_pos_desired = o.ee_pos_desired
            /\ ee_quat_desired = o.ee_quat_desired
            /\ ee_vel_desired = o.ee_vel_desired
            /\ ee_rvel_desired = o.ee_rvel_desired
            /\ Kp = o.Kp
            /\ Kd = o.Kd
            /\ ignore_gravity = o.ignore_gravity
            /\ robot_model = "robot_model"
            /\ tpc = "idle"
            /\ fwd = NoLocals
            /\ result = Pending
            /\ rm_calls = <<>>
            /\ upc = "idle"
            /\ upd_args = None
            /\ committed = [pos |-> o.ee_pos_desired, quat |-> o.ee_quat_desired,
                            by |-> "__init__"]
            /\ tick_targets = {}

\* ------------------------------------------------- update_desired_ee_pose
\* Whether the running tick has yet to finish reading its target.
TickBeforeReads == tpc \in {"fk", "jacobian", "read_pos", "read_quat"}

\* The end of a call of forward(): its frame is gone.
EndTick(r) ==
    /\ tpc' = "idle"
    /\ result' = r
    /\ fwd' = NoLocals

\* An update whose first assignment also overwrites the desired velocity.
UpdateSetPos_TouchesVelocity(p, q) ==
    /\ upc = "idle"
    /\ ee_pos_desired' = p
    /\ ee_vel_desired' = p
    /\ upc' = "set_quat"
    /\ upd_args' = [pos |-> p, quat |-> q]
    /\ tick_targets' = IF TickBeforeReads
                       THEN tick_targets \cup {<<p, q>>} ELSE tick_targets
    /\ UNCHANGED <<ee_quat_desired, ee_rvel_desired,
                   Kp, Kd, ignore_gravity, robot_model, control, ctor, committed>>

\* The call and its first assignment (line 66).
UpdateSetPos(p, q) ==
    /\ upc = "idle"
    /\ ee_pos_desired' = p
    /\ upc' = "set_quat"
    /\ upd_args' = [pos |-> p, quat |-> q]
    /\ tick_targets' = IF TickBeforeReads
                       THEN tick_targets \cup {<<p, q>>} ELSE tick_targets
    /\ UNCHANGED <<ee_quat_desired, ee_vel_desired, ee_rvel_desired,
                   Kp, Kd, ignore_gravity, robot_model, control, ctor, committed>>

\* An update that returns without assigning the orientation.
UpdateSetQuat_Skipped ==
    /\ upc = "set_quat"
    /\ upc' = "idle"
    /\ upd_args' = None
    /\ committed' = [pos |-> upd_args.pos, quat |-> upd_args.quat,
                     by |-> "update_desired_ee_pose"]
    /\ UNCHANGED <<policy, control, ctor, tick_targets>>

\* The second assignment (line 67) and the return.
UpdateSetQuat ==
    /\ upc = "set_quat"
    /\ ee_quat_desired' = upd_args.quat
    /\ upc' = "idle"
    /\ upd_args' = None
    /\ committed' = [pos |-> upd_args.pos, quat |-> upd_args.quat,
                     by |-> "update_desired_ee_pose"]
    /\ UNCHANGED <<ee_pos_desired, ee_vel_desired, ee_rvel_desired,
                   Kp, Kd, ignore_gravity, robot_model, control, ctor, tick_targets>>

\* ----------------------------------------------------------------- forward
\* The targets a tick starting now may legitimately use: the last one written
\* in full and the one an update in flight is writing.
TargetsNow ==
    {<<committed.pos, committed.quat>>}
        \cup (IF upc = "set_quat" THEN {<<upd_args.pos, upd_args.quat>>} ELSE {})

\* The call and the state extraction (lines 78-79).
TickStart(state_dict) ==
    /\ tpc = "idle"
    /\ tpc' = "fk"
    /\ fwd' = [NoLocals EXCEPT !.joint_pos_current = state_dict.joint_positions,
                               !.joint_vel_current = state_dict.joint_velocities]
    /\ result' = Pending
    /\ rm_calls' = <<>>
    /\ tick_targets' = TargetsNow
    /\ UNCHANGED <<policy, updater, ctor, committed>>

\* robot_model.forward_kinematics(joint_pos_current) (lines 82-84).
TickForwardKinematics ==
    /\ tpc = "fk"
    /\ rm_calls' = Append(rm_calls, "forward_kinematics")
    /\ IF RobotAccepts(fwd.joint_pos_current)
       THEN LET ee == forward_kinematics(fwd.joint_pos_current)
            IN  /\ fwd' = [fwd EXCEPT !.ee_pos_current = ee.pos,
                                      !.ee_quat_current = ee.quat]
                /\ tpc' = "jacobian"
                /\ UNCHANGED result
       ELSE EndTick(Raised("RobotModelError"))
    /\ UNCHANGED <<policy, updater, history>>

\* A Jacobian step that evaluates the Jacobian at the joint velocities.
TickJacobian_AtVelocities ==
    /\ tpc = "jacobian"
    /\ rm_calls' = Append(rm_calls, "compute_jacobian")
    /\ IF Len(fwd.joint_vel_current) = DOF
       THEN LET jacobian == compute_jacobian(fwd.joint_vel_current)
            IN  /\ fwd' = [fwd EXCEPT
                             !.jacobian = jacobian,
                             !.ee_twist_current = MatVec(jacobian, fwd.joint_vel_current)]
                /\ tpc' = "read_pos"
                /\ UNCHANGED result
       ELSE EndTick(Raised("RuntimeError"))
    /\ UNCHANGED <<policy, updater, history>>

\* robot_model.compute_jacobian(joint_pos_current) and
\* jacobian @ joint_vel_current, which raises on a length mismatch
\* (lines 85-86).
TickJacobian ==
    /\ tpc = "jacobian"
    /\ rm_calls' = Append(rm_calls, "compute_jacobian")
    /\ LET jacobian == compute_jacobian(fwd.joint_pos_current)
       IN  IF Len(fwd.joint_vel_current) = DOF
           THEN /\ fwd' = [fwd EXCEPT
                             !.jacobian = jacobian,
                             !.ee_twist_current = MatVec(jacobian, fwd.joint_vel_current)]
                /\ tpc' = "read_pos"
                /\ UNCHANGED result
           ELSE EndTick(Raised("RuntimeError"))
    /\ UNCHANGED <<policy, updater, history>>

\* A read that also re-targets the policy to the current position.
TickReadPos_Retargets ==
    /\ tpc = "read_pos"
    /\ fwd' = [fwd EXCEPT !.pos_desired = ee_pos_desired]
    /\ ee_pos_desired' = fwd.ee_pos_current
    /\ tpc' = "read_quat"
    /\ UNCHANGED <<ee_quat_desired, ee_vel_desired, ee_rvel_desired,
                   Kp, Kd, ignore_gravity, robot_model,
                   result, rm_calls, updater, history>>

\* The read of self.ee_pos_desired (line 92).
TickReadPos ==
    /\ tpc = "read_pos"
    /\ fwd' = [fwd EXCEPT !.pos_desired = ee_pos_desired]
    /\ tpc' = "read_quat"
    /\ UNCHANGED <<policy, result, rm_calls, updater, history>>

\* The read of self.ee_quat_desired (line 93).
TickReadQuat ==
    /\ tpc = "read_quat"
    /\ fwd' = [fwd EXCEPT !.quat_desired = ee_quat_desired]
    /\ tpc' = "pose_pd"
    /\ UNCHANGED <<policy, result, rm_calls, updater, history>>

\* self.pose_pd(...) on the values read, with the desired twist
\* cat([ee_vel_desired, ee_rvel_desired]), and jacobian.T @ wrench_feedback
\* (lines 88-96).
TickPosePD ==
    /\ tpc = "pose_pd"
    /\ LET wrench == pose_pd(Kp, Kd,
                             fwd.ee_pos_current, fwd.ee_quat_current,
                             fwd.ee_twist_current,
                             fwd.pos_desired, fwd.quat_desired,
                             ee_vel_desired \o ee_rvel_desired)
       IN  fwd' = [fwd EXCEPT !.wrench_feedback = wrench,
                              !.torque_feedback = MatTVec(fwd.jacobian, wrench)]
    /\ tpc' = "invdyn"
    /\ tick_targets' = {}
    /\ UNCHANGED <<policy, result, rm_calls, updater, ctor, committed>>

\* A desired acceleration that is the joint positions themselves.
DesiredAcceleration_NotZeroed(joint_pos_current) == joint_pos_current

\* torch.zeros_like(joint_pos_current) (line 99).
DesiredAcceleration(joint_pos_current) == Zeros(Len(joint_pos_current))

\* self.invdyn(joint_pos_current, joint_vel_current, zeros) (lines 98-100);
\* the module holds the constructor's ignore_gravity (lines 45-47).
TickInverseDynamics ==
    /\ tpc = "invdyn"
    /\ LET args == <<fwd.joint_pos_current, fwd.joint_vel_current,
                     DesiredAcceleration(fwd.joint_pos_current), ignore_gravity>>
       IN  fwd' = [fwd EXCEPT
                     !.invdyn_args = args,
                     !.torque_feedforward =
                         inverse_dynamics(args[1], args[2], args[3], args[4])]
    /\ rm_calls' = Append(rm_calls, "inverse_dynamics")
    /\ tpc' = "return"
    /\ UNCHANGED <<policy, result, updater, history>>

\* torque_out = torque_feedback + torque_feedforward (line 102).
TorqueOut(torque_feedback, torque_feedforward) ==
    VecAdd(torque_feedback, torque_feedforward)

\* The return of {"joint_torques": torque_out} (lines 102-103).
TickReturn ==
    /\ tpc = "return"
    /\ EndTick(Returned(TorqueOut(fwd.torque_feedback, fwd.torque_feedforward)))
    /\ UNCHANGED <<policy, rm_calls, updater, history>>

\* ----------------------------------------------------------- specification
Tick ==
    \/ \E state_dict \in StateDicts : TickStart(state_dict)
    \/ TickForwardKinematics
    \/ TickJacobian
    \/ TickReadPos
    \/ TickReadQuat
    \/ TickPosePD
    \/ TickInverseDynamics
    \/ TickReturn

Update ==
    \/ \E p \in Positions, q \in Quaternions : UpdateSetPos(p, q)
    \/ UpdateSetQuat

Next == Tick \/ Update

Spec == Init /\ [][Next]_vars

\* ------------------------------------------------------------------ claims
TickStep == tpc' # tpc
TickEnds == tpc # "idle" /\ tpc' = "idle"
TargetRead == <<fwd.pos_desired, fwd.quat_desired>>
CtorTarget ==
    <<IF ctor.ee_pos_desired = None
      THEN forward_kinematics(ctor.joint_pos_current).pos ELSE ctor.ee_pos_desired,
      IF ctor.ee_quat_desired = None
      THEN forward_kinematics(ctor.joint_pos_current).quat ELSE ctor.ee_quat_desired>>

\* C1: a tick that has read its desired position and orientation holds a
\* pair that was one whole target, the one current when the tick began or
\* one an update wrote or was writing before the tick finished reading; it
\* never holds the position of one target with the orientation of another.
C1_TickReadsOneTarget ==
    tpc = "pose_pd" => TargetRead \in tick_targets

\* C2: a tick called with joint positions or velocities whose length is not
\* DOF ends raising ShapeMismatch, having invoked no robot-model operation
\* and returning no torques.
C2_ShapeMismatchBeforeRobotModel ==
    [][(TickEnds /\ (Len(fwd.joint_pos_current) # DOF \/ Len(fwd.joint_vel_current) # DOF))
         => (result' = Raised("ShapeMismatch") /\ rm_calls' = <<>>)]_vars

\* C3: when the only target around while a tick reads is the one the last
\* returned update_desired_ee_pose(p, q) wrote (the update returned before
\* the tick began and no other target was written since), the tick computes
\* its error against exactly p and q.
C3_TickUsesReturnedUpdate ==
    (/\ tpc = "pose_pd"
     /\ committed.by = "update_desired_ee_pose"
     /\ tick_targets = {<<committed.pos, committed.quat>>})
        => (fwd.pos_desired = committed.pos /\ fwd.quat_desired = committed.quat)

C3_Witness ==
    /\ tpc = "pose_pd"
    /\ committed.by = "update_desired_ee_pose"
    /\ upc = "idle"
    /\ tick_targets = {<<committed.pos, committed.quat>>}
    /\ committed.pos # CtorTarget[1]
    /\ committed.quat # CtorTarget[2]
    /\ TargetRead = <<committed.pos, committed.quat>>

\* C4: whatever updates and ticks have run, the desired linear and angular
\* velocities are the zeros of construction, and the gains, ignore_gravity
\* and the robot model are those given at construction: updates change the
\* desired position and orientation only.
C4_UpdateLeavesRestAlone ==
    /\ ee_vel_desired = Zeros(3)
    /\ ee_rvel_desired = Zeros(3)
    /\ Kp = ctor.Kp
    /\ Kd = ctor.Kd
    /\ ignore_gravity = ctor.ignore_gravity
    /\ robot_model = "robot_model"

C4_Witness ==
    /\ committed.by = "update_desired_ee_pose"
    /\ upc = "idle"
    /\ <<ee_pos_desired, ee_quat_desired>> # CtorTarget
    /\ result.status = "returned"

\* C5: no step of a tick, successful or failed, changes the desired
\* position, orientation, linear velocity or angular velocity (nor any other
\* field of the policy).
C5_TickLeavesTargetAlone ==
    [][TickStep => UNCHANGED policy]_vars

C5_Witness ==
    /\ tpc = "idle"
    /\ result.status = "returned"
    /\ committed.by = "update_desired_ee_pose"

\* C6: until the first update, the desired position is the constructor's
\* ee_pos_desired if one was given and the position of
\* forward_kinematics(joint_pos_current) if not, the desired orientation
\* likewise and independently, and both desired velocities are zero.
C6_ConstructionDefaults ==
    (committed.by = "__init__" /\ upc = "idle")
        => /\ ee_pos_desired =
                IF ctor.ee_pos_desired = None
                THEN forward_kinematics(ctor.joint_pos_current).pos
                ELSE ctor.ee_pos_desired
           /\ ee_quat_desired =
                IF ctor.ee_quat_desired = None
                THEN forward_kinematics(ctor.joint_pos_current).quat
                ELSE ctor.ee_quat_desired
           /\ ee_vel_desired = Zeros(3)
           /\ ee_rvel_desired = Zeros(3)

C6_Witness ==
    /\ committed.by = "__init__"
    /\ upc = "idle"
    /\ ctor.ee_pos_desired = None
    /\ ctor.ee_quat_desired # None
    /\ ee_pos_desired = forward_kinematics(ctor.joint_pos_current).pos
    /\ ee_pos_desired # Zeros(3)
    /\ ee_quat_desired = ctor.ee_quat_desired
    /\ ee_quat_desired # forward_kinematics(ctor.joint_pos_current).quat

\* C7: the torques a tick returns are jacobian^T x wrench plus the
\* feedforward torque of inverse dynamics, and with Kp = Kd = 0 the feedback
\* torque is zero, so the torques returned are the feedforward torque.
C7_TorqueIsFeedbackPlusFeedforward ==
    [][(tpc = "return" /\ tpc' = "idle")
         => /\ result'.status = "returned"
            /\ result'.joint_torques =
                 VecAdd(MatTVec(fwd.jacobian, fwd.wrench_feedback), fwd.torque_feedforward)
            /\ (Kp = Zeros(6) /\ Kd = Zeros(6))
                 => (/\ fwd.torque_feedback = Zeros(DOF)
                     /\ result'.joint_torques = fwd.torque_feedforward)]_vars

\* C8: a tick in which the robot model fails, or in which a non-finite
\* value has appeared (in the pose, the Jacobian, the twist, the wrench or a
\* torque), ends at its next step, raising and returning no torques.
HasNaN(v) == \E i \in DOMAIN v : v[i] = NaN
MatHasNaN(m) == \E r \in DOMAIN m : HasNaN(m[r])

NonFiniteInPipeline ==
    \/ HasNaN(fwd.ee_pos_current) \/ HasNaN(fwd.ee_quat_current)
    \/ MatHasNaN(fwd.jacobian) \/ HasNaN(fwd.ee_twist_current)
    \/ HasNaN(fwd.wrench_feedback) \/ HasNaN(fwd.torque_feedback)
    \/ HasNaN(fwd.torque_feedforward)

RobotModelFails == tpc = "fk" /\ ~RobotAccepts(fwd.joint_pos_current)

C8_FailedTickEmitsNothing ==
    [][(TickStep /\ tpc # "idle" /\ (RobotModelFails \/ NonFiniteInPipeline))
         => (/\ tpc' = "idle"
             /\ result'.status = "raised"
             /\ result'.joint_torques = None)]_vars

\* C9: every tick invokes inverse dynamics with its own joint positions and
\* velocities, an all-zero desired acceleration, and the ignore_gravity given
\* at construction.
C9_InverseDynamicsArguments ==
    tpc = "return"
        => fwd.invdyn_args = <<fwd.joint_pos_current, fwd.joint_vel_current,
                               Zeros(Len(fwd.joint_pos_current)), ctor.ignore_gravity>>

C9_Witness ==
    /\ tpc = "return"
    /\ ~ctor.ignore_gravity
    /\ fwd.joint_pos_current = Ones(DOF)
    /\ fwd.joint_vel_current = Ones(DOF)
    /\ fwd.invdyn_args[3] = Zeros(DOF)
    /\ committed.by = "update_desired_ee_pose"

\* C10: from the Jacobian step on, the pose, Jacobian and twist a tick holds
\* are those of its own joint positions and velocities, and the feedback
\* torque is the transpose of that same Jacobian applied to the wrench.
C10_JacobianOfThisTick ==
    /\ tpc \in {"read_pos", "read_quat", "pose_pd", "invdyn", "return"}
        => /\ fwd.ee_pos_current = forward_kinematics(fwd.joint_pos_current).pos
           /\ fwd.ee_quat_current = forward_kinematics(fwd.joint_pos_current).quat
           /\ fwd.jacobian = compute_jacobian(fwd.joint_pos_current)
           /\ fwd.ee_twist_current =
                MatVec(compute_jacobian(fwd.joint_pos_current), fwd.joint_vel_current)
    /\ tpc \in {"invdyn", "return"}
        => fwd.torque_feedback =
             MatTVec(compute_jacobian(fwd.joint_pos_current), fwd.wrench_feedback)

C10_Witness ==
    /\ tpc = "return"
    /\ fwd.joint_pos_current = Ones(DOF)
    /\ fwd.joint_vel_current = Ones(DOF)
    /\ fwd.torque_feedback # Zeros(DOF)
    /\ ~HasNaN(fwd.torque_feedback)

====
